---- MODULE Spec2Model ----
(***************************************************************************)
(* Model of the OCR document-processing core of ocr-busspass               *)
(* (src/ocr/core.py) and of its caller src/api/routes.py.                  *)
(*                                                                         *)
(* Texts are sequences of one-character strings, so that lower(), strip()  *)
(* and the substring test `pattern in text` are computed, not assumed.     *)
(***************************************************************************)
EXTENDS Integers, Sequences, FiniteSets, TLC

VARIABLES
    elements,   \* identify_fields: the WordElement sequence passed in
    fields,     \* identify_fields: the dict it returned
    ffvLog,     \* identify_fields: its calls of find_field_value, in order
    sorted_elements, \* identify_fields: its local list, sorted by y
    fpc,        \* identify_fields: "input" before the call, "done" after
    fs,         \* the file system: path -> content of the image file, or Absent
    cache,      \* lru_cache of extract_text_from_image: <<[key, value]>>, oldest first
    lastCall,   \* the last call of the cached extract_text_from_image
    pc,         \* per request thread: where it stands
    req,        \* per request thread: the call it serves
    page_num,   \* per request thread: the PDF page in hand (0-based)
    acc,        \* per request thread: results / all_text so far
    result,     \* per request thread: what the call returned or raised
    calls       \* per request thread: calls made of the rasterizer, preprocessor,
                \* OCR engine, and temporary files saved and removed

fvars == <<elements, fields, ffvLog, sorted_elements, fpc>>
dvars == <<fs, cache, lastCall, pc, req, page_num, acc, result, calls>>
vars == <<elements, fields, ffvLog, sorted_elements, fpc,
          fs, cache, lastCall, pc, req, page_num, acc, result, calls>>

(***************************************************************************)
(* Bounds of the model.                                                    *)
(***************************************************************************)
MaxElems == 3
MaxPages == 2

(***************************************************************************)
(* Python values.                                                          *)
(***************************************************************************)
\* Python values carry their type: None, a str (a sequence of characters), a
\* dict (a function).
None == [t |-> "None"]
PyStr(s) == [t |-> "str", v |-> s]
PyDict(d) == [t |-> "dict", v |-> d]
PyList(l) == [t |-> "list", v |-> l]

\* Python's truth value of such a value: None, "", [] and {} are false.
Truthy(val) ==
    /\ val # None
    /\ val.t \in {"str", "list"} => val.v # <<>>
    /\ val.t = "dict" => DOMAIN val.v # {}

\* How a call ends.
Return(val) == [kind |-> "return", value |-> val]
Raise(exc, msg) == [kind |-> "raise", value |-> [t |-> exc, v |-> msg]]

\* An empty dict.
EmptyDict == [k \in {} |-> None]

\* d[k] = v on a dict d.
DictSet(d, k, v) == [j \in (DOMAIN d) \cup {k} |-> IF j = k THEN v ELSE d[j]]

(***************************************************************************)
(* Text helpers: str.lower, str.strip, `in`.                               *)
(***************************************************************************)
\* str.lower on one character: the upper-case letters that occur in the texts
\* of this model; every other character of these texts is its own lower case.
LowerChar(c) ==
    CASE c = "C" -> "c" [] c = "P" -> "p" [] c = "F" -> "f"
      [] c = "V" -> "v" [] c = "N" -> "n"
      [] OTHER -> c

Lower(text) == [i \in 1..Len(text) |-> LowerChar(text[i])]

IsSpace(c) == c \in {" ", "\n", "\t"}

RECURSIVE LStrip(_)
LStrip(text) ==
    IF text # <<>> /\ IsSpace(Head(text)) THEN LStrip(Tail(text)) ELSE text

RECURSIVE RStrip(_)
RStrip(text) ==
    IF text # <<>> /\ IsSpace(text[Len(text)])
    THEN RStrip(SubSeq(text, 1, Len(text) - 1))
    ELSE text

Strip(text) == RStrip(LStrip(text))

\* Python's `pattern in text` on strings.
Contains(pattern, text) ==
    \E i \in 1..(Len(text) - Len(pattern) + 1) :
        SubSeq(text, i, i + Len(pattern) - 1) = pattern

(***************************************************************************)
(* identify_fields: the registry of field patterns, in dict order.         *)
(***************************************************************************)
field_names ==
    << "nome", "cpf", "rg", "data_nascimento", "filiacao", "endereco",
       "validade", "numero_cartao", "validade_cartao", "titular" >>

\* "a~" and "u'" stand for the single characters a-tilde and u-acute.
field_patterns(f) ==
    CASE f = "nome" -> << <<"n","o","m","e">>, <<"n","a","m","e">> >>
      [] f = "cpf" -> << <<"c","p","f">>,
            <<"c","a","d","a","s","t","r","o"," ","d","e"," ","p","e","s","s","o","a">> >>
      [] f = "rg" -> << <<"r","g">>,
            <<"r","e","g","i","s","t","r","o"," ","g","e","r","a","l">>,
            <<"i","d","e","n","t","i","d","a","d","e">> >>
      [] f = "data_nascimento" -> << <<"n","a","s","c","i","m","e","n","t","o">>,
            <<"d","a","t","a"," ","d","e"," ","n","a","s","c","i","m","e","n","t","o">>,
            <<"b","i","r","t","h">>,
            <<"n","a","s","c">> >>
      [] f = "filiacao" -> << <<"f","i","l","i","a","c","a","o">>,
            <<"f","i","l","h","o">>,
            <<"p","a","i">>,
            <<"m","a","e">>,
            <<"f","a","t","h","e","r">>,
            <<"m","o","t","h","e","r">> >>
      [] f = "endereco" -> << <<"e","n","d","e","r","e","c","o">>,
            <<"a","d","d","r","e","s","s">>,
            <<"r","e","s","i","d","e","n","c","i","a">> >>
      [] f = "validade" -> << <<"v","a","l","i","d","a","d","e">>,
            <<"v","a","l","i","d">>,
            <<"e","x","p","i","r","a">> >>
      [] f = "numero_cartao" -> << <<"c","a","r","t","a~","o">>,
            <<"c","a","r","d"," ","n","u","m","b","e","r">>,
            <<"n","u'","m","e","r","o"," ","d","o"," ","c","a","r","t","a~","o">> >>
      [] f = "validade_cartao" -> << <<"v","a","l","i","d"," ","t","h","r","u">>,
            <<"v","a","l","i","d","a","d","e">> >>
      [] f = "titular" -> << <<"t","i","t","u","l","a","r">>,
            <<"h","o","l","d","e","r">> >>

\* any(pattern in text for pattern in patterns)
MatchesField(f, text) ==
    \E j \in 1..Len(field_patterns(f)) : Contains(field_patterns(f)[j], text)

\* The for/break over field_patterns.items(), from the k-th field on: the index
\* of the first field, in registry order, one of whose patterns is in the text;
\* 0 when there is none.
RECURSIVE FirstMatchingFrom(_, _)
FirstMatchingFrom(k, text) ==
    IF k > Len(field_names) THEN 0
    ELSE IF MatchesField(field_names[k], text) THEN k
    ELSE FirstMatchingFrom(k + 1, text)

\* Mutant of FirstMatchingField: the last matching field of the registry is
\* taken instead of the first.
FirstMatchingField_last(text) ==
    LET M == { k \in 1..Len(field_names) : MatchesField(field_names[k], text) }
    IN  IF M = {} THEN 0 ELSE CHOOSE k \in M : \A j \in M : k >= j

FirstMatchingField(text) == FirstMatchingFrom(1, text)

(***************************************************************************)
(* find_field_value                                                        *)
(***************************************************************************)
SameRowTolerance == 20
max_distance == 100

Abs(n) == IF n < 0 THEN -n ELSE n

\* The test of the first loop: same row (approximately) and to the right.
SameRowRule(e, label_x, label_y) ==
    /\ Abs(e.y - label_y) < SameRowTolerance
    /\ e.x > label_x

\* The test of the second loop: below and near.
BelowRule(e, label_x, label_y) ==
    /\ e.y > label_y
    /\ e.y - label_y < max_distance
    /\ Abs(e.x - label_x) < max_distance

\* The first of the indexes S a loop over the list meets; 0 when it meets none.
FirstIndex(S) ==
    IF S = {} THEN 0 ELSE CHOOSE i \in S : \A j \in S : i <= j

\* Mutant of find_field_value: one pass that returns the first element
\* satisfying either rule.
find_field_value_one_pass(elems, current_index, label_x, label_y) ==
    FirstIndex({ i \in current_index..Len(elems) :
                    \/ SameRowRule(elems[i], label_x, label_y)
                    \/ BelowRule(elems[i], label_x, label_y) })

\* Mutant of find_field_value: the distance tests admit the bounds themselves
\* (<= 20, <= max_distance).
find_field_value_inclusive(elems, current_index, label_x, label_y) ==
    LET right == FirstIndex({ i \in current_index..Len(elems) :
                                /\ Abs(elems[i].y - label_y) <= SameRowTolerance
                                /\ elems[i].x > label_x })
    IN  IF right # 0 THEN right
        ELSE FirstIndex({ i \in current_index..Len(elems) :
                            /\ elems[i].y > label_y
                            /\ elems[i].y - label_y <= max_distance
                            /\ Abs(elems[i].x - label_x) <= max_distance })

\* Mutant of find_field_value: both loops scan the whole list instead of
\* elements[current_index:].
find_field_value_whole_list(elems, current_index, label_x, label_y) ==
    LET right == FirstIndex({ i \in 1..Len(elems) :
                                SameRowRule(elems[i], label_x, label_y) })
    IN  IF right # 0 THEN right
        ELSE FirstIndex({ i \in 1..Len(elems) :
                            BelowRule(elems[i], label_x, label_y) })

\* find_field_value(elements, current_index, label_position): the index (1-based)
\* of the element returned, 0 for None. current_index is 1-based here, and
\* elements[current_index:] is the index range current_index..Len(elems).
find_field_value(elems, current_index, label_x, label_y) ==
    LET right == FirstIndex({ i \in current_index..Len(elems) :
                                SameRowRule(elems[i], label_x, label_y) })
    IN  IF right # 0 THEN right
        ELSE FirstIndex({ i \in current_index..Len(elems) :
                            BelowRule(elems[i], label_x, label_y) })

(***************************************************************************)
(* identify_fields                                                         *)
(***************************************************************************)
MinY(seq) == CHOOSE m \in {seq[i].y : i \in 1..Len(seq)} :
                \A i \in 1..Len(seq) : m <= seq[i].y

\* Mutant of sorted_by_y: the sort is left out.
sorted_by_y_unsorted(seq) == seq

\* sorted(elements, key=lambda x: x['position']['y']): a stable sort.
RECURSIVE sorted_by_y(_)
sorted_by_y(seq) ==
    IF seq = <<>> THEN <<>>
    ELSE LET m == MinY(seq)
             IsMin(e) == e.y = m
             NotMin(e) == e.y # m
         IN  SelectSeq(seq, IsMin) \o sorted_by_y(SelectSeq(seq, NotMin))

\* Mutant of IdentifyStep: a field already resolved is not overwritten.
IdentifyStep_keep_first(sorted_elems, i, st) ==
    LET element == sorted_elems[i]
        text    == Strip(Lower(element.text))
        k       == FirstMatchingField(text)
    IN  IF k = 0 THEN st
        ELSE LET v == find_field_value(sorted_elems, i, element.x, element.y)
                 call == [index |-> i, field |-> field_names[k], value |-> v]
             IN  IF v # 0 /\ field_names[k] \notin DOMAIN st.fields
                 THEN [fields |-> DictSet(st.fields, field_names[k],
                                    [label |-> element.text,
                                     value |-> sorted_elems[v].text,
                                     position |-> [x |-> sorted_elems[v].x,
                                                   y |-> sorted_elems[v].y]]),
                       log |-> Append(st.log, call)]
                 ELSE [fields |-> st.fields, log |-> Append(st.log, call)]

\* One iteration of the loop over the sorted list, at index i: the state is
\* [fields, log]. log records every call of find_field_value.
IdentifyStep(sorted_elems, i, st) ==
    LET element == sorted_elems[i]
        text    == Strip(Lower(element.text))
        k       == FirstMatchingField(text)
    IN  IF k = 0 THEN st
        ELSE LET v == find_field_value(sorted_elems, i, element.x, element.y)
                 call == [index |-> i, field |-> field_names[k], value |-> v]
             IN  IF v # 0
                 THEN [fields |-> DictSet(st.fields, field_names[k],
                                    [label |-> element.text,
                                     value |-> sorted_elems[v].text,
                                     position |-> [x |-> sorted_elems[v].x,
                                                   y |-> sorted_elems[v].y]]),
                       log |-> Append(st.log, call)]
                 ELSE [fields |-> st.fields, log |-> Append(st.log, call)]

RECURSIVE IdentifyLoop(_, _, _)
IdentifyLoop(sorted_elems, i, st) ==
    IF i > Len(sorted_elems) THEN st
    ELSE IdentifyLoop(sorted_elems, i + 1, IdentifyStep(sorted_elems, i, st))

\* identify_fields(elements), with the log of its find_field_value calls.
identify_fields_run(elems) ==
    LET s == sorted_by_y(elems)
        r == IdentifyLoop(s, 1, [fields |-> EmptyDict, log |-> <<>>])
    IN  [fields |-> r.fields, log |-> r.log, sorted |-> s]

identify_fields(elems) == identify_fields_run(elems).fields

(***************************************************************************)
(* The external collaborators: what a page or an image file holds decides  *)
(* what the rasterizer (fitz), PIL, preprocess_image and Tesseract do with *)
(* it.                                                                     *)
(***************************************************************************)
Contents == {"RenderErr", "PrepErr", "OcrErr", "Blank", "Hello", "Cpf12", "Cpf34"}

\* page.get_pixmap / Image.frombytes on a page, Image.open on a file: does it
\* yield an image?
Decodable(c) == c # "RenderErr"

\* preprocess_image: does it return (TRUE) or raise (FALSE)?
Preprocessable(c) == c # "PrepErr"

\* pytesseract: does the engine answer (TRUE) or raise (FALSE)?
Recognizable(c) == c # "OcrErr"

\* pytesseract.image_to_string
image_to_string(c) ==
    CASE c = "Hello" -> <<"h","e","l","l","o","\n">>
      [] c = "Cpf12" -> <<"C","P","F"," ","1","2","\n">>
      [] c = "Cpf34" -> <<"C","P","F"," ","3","4","\n">>
      [] OTHER -> <<>>

\* pytesseract.image_to_data(..., output_type=DICT), row by row. The first row
\* of a page with text is the engine's block row: conf -1, no text.
image_to_data(c) ==
    CASE c = "Hello" ->
            << [text |-> <<>>, conf |-> -1, left |-> 0, top |-> 0, width |-> 200, height |-> 200],
               [text |-> <<"h","e","l","l","o">>, conf |-> 90, left |-> 0, top |-> 40, width |-> 21, height |-> 21] >>
      [] c = "Cpf12" ->
            << [text |-> <<>>, conf |-> -1, left |-> 0, top |-> 0, width |-> 200, height |-> 200],
               [text |-> <<"C","P","F">>, conf |-> 90, left |-> 0, top |-> 40, width |-> 21, height |-> 21],
               [text |-> <<" ">>, conf |-> 50, left |-> 30, top |-> 40, width |-> 5, height |-> 21],
               [text |-> <<"1","2">>, conf |-> 80, left |-> 50, top |-> 42, width |-> 21, height |-> 21] >>
      [] c = "Cpf34" ->
            << [text |-> <<>>, conf |-> -1, left |-> 0, top |-> 0, width |-> 200, height |-> 200],
               [text |-> <<"C","P","F">>, conf |-> 90, left |-> 0, top |-> 40, width |-> 21, height |-> 21],
               [text |-> <<"3","4">>, conf |-> 80, left |-> 50, top |-> 42, width |-> 21, height |-> 21] >>
      [] OTHER -> <<>>

(***************************************************************************)
(* Files and the counters of calls.                                        *)
(***************************************************************************)
Absent == "Absent"

\* The path process_document is called with when the document is an image.
UploadPath == <<"uploads/doc", 0, ".png">>

\* f"temp_page_{page_num}.png", in the working directory of the process.
TempPath(n) == <<"temp_page_", n, ".png">>

TempPaths == { TempPath(n) : n \in 0..(MaxPages - 1) }

Paths == {UploadPath} \cup TempPaths

\* os.path.exists
Exists(f, path) == f[path] # Absent

\* img.save(path)
SaveFile(f, path, c) == [f EXCEPT ![path] = c]

\* Mutant of RemoveFile: the file is left behind.
RemoveFile_left_behind(f, path) == f

\* os.remove(path), on a file that exists.
RemoveFile(f, path) == [f EXCEPT ![path] = Absent]

NoCalls == [raster |-> 0, preprocess |-> 0, ocr |-> 0, saved |-> 0, removed |-> 0]

Count(k, what) == [k EXCEPT ![what] = k[what] + 1]

(***************************************************************************)
(* extract_text_from_image, and the lru_cache around it.                   *)
(***************************************************************************)
\* The body of extract_text_from_image on the file system f: [value, calls].
\* Every exception is caught and None is returned.
extract_text_from_image_body(f, path, k) ==
    IF ~Exists(f, path) THEN [value |-> None, calls |-> k]
    ELSE IF ~Decodable(f[path]) THEN [value |-> None, calls |-> k]
    ELSE IF ~Preprocessable(f[path])
         THEN [value |-> None, calls |-> Count(k, "preprocess")]
    ELSE IF ~Recognizable(f[path])
         THEN [value |-> None, calls |-> Count(Count(k, "preprocess"), "ocr")]
    ELSE [value |-> PyStr(image_to_string(f[path])),
          calls |-> Count(Count(k, "preprocess"), "ocr")]

lru_maxsize == 100

\* The key lru_cache makes of a call: the positional path and the lang keyword;
\* NoKw when the call passes no lang (extract_text_from_pdf).
NoKw == "-"
CacheKey(path, langkw) == <<path, langkw>>

CacheIndex(c, key) ==
    IF \E i \in 1..Len(c) : c[i].key = key
    THEN CHOOSE i \in 1..Len(c) : c[i].key = key
    ELSE 0

\* The sequence c without its i-th entry.
Without(c, i) == SubSeq(c, 1, i - 1) \o SubSeq(c, i + 1, Len(c))

\* A hit makes the entry the most recent one.
CacheTouch(c, i) == Append(Without(c, i), c[i])

\* A miss stores the value; a full cache drops its oldest entry.
CacheStore(c, key, val) ==
    IF Len(c) >= lru_maxsize
    THEN Append(Tail(c), [key |-> key, value |-> val])
    ELSE Append(c, [key |-> key, value |-> val])

\* The decorated extract_text_from_image(path[, lang=...]):
\* [value, calls, cache, hit, uncached], uncached being what the body returns
\* on the file system as it is at the call.
extract_text_from_image(f, c, path, langkw, k) ==
    LET key  == CacheKey(path, langkw)
        i    == CacheIndex(c, key)
        body == extract_text_from_image_body(f, path, k)
    IN  IF i # 0
        THEN [value |-> c[i].value, calls |-> k, cache |-> CacheTouch(c, i),
              hit |-> TRUE, uncached |-> body.value]
        ELSE [value |-> body.value, calls |-> body.calls,
              cache |-> CacheStore(c, key, body.value),
              hit |-> FALSE, uncached |-> body.value]

(***************************************************************************)
(* extract_text_from_pdf_by_image (plain-text mode of a PDF).              *)
(***************************************************************************)
\* "\n".join(all_text)
RECURSIVE JoinLines(_)
JoinLines(all_text) ==
    IF all_text = <<>> THEN <<>>
    ELSE IF Len(all_text) = 1 THEN all_text[1]
    ELSE all_text[1] \o <<"\n">> \o JoinLines(Tail(all_text))

\* The page loop from page n (1-based) on, inside the function's one try block:
\* an exception on any page ends the function with None. [value, calls].
RECURSIVE PdfByImageLoop(_, _, _, _)
PdfByImageLoop(doc, n, all_text, k) ==
    IF n > Len(doc)
    THEN [value |-> IF all_text = <<>> THEN None ELSE PyStr(JoinLines(all_text)),
          calls |-> k]
    ELSE LET c  == doc[n]
             k1 == Count(k, "raster")
             k2 == Count(k1, "preprocess")
             k3 == Count(k2, "ocr")
             page_text == image_to_string(c)
         IN  IF ~Decodable(c) THEN [value |-> None, calls |-> k1]
             ELSE IF ~Preprocessable(c) THEN [value |-> None, calls |-> k2]
             ELSE IF ~Recognizable(c) THEN [value |-> None, calls |-> k3]
             ELSE IF page_text # <<>>
                  THEN PdfByImageLoop(doc, n + 1, Append(all_text, Strip(page_text)), k3)
                  ELSE PdfByImageLoop(doc, n + 1, all_text, k3)

extract_text_from_pdf_by_image(doc, k) == PdfByImageLoop(doc, 1, <<>>, k)

(***************************************************************************)
(* extract_text_with_position                                              *)
(***************************************************************************)
\* The loop over the rows of image_to_data: rows of confidence -1 or of blank
\* text are skipped; the centre is left + width // 2, top + height // 2.
RECURSIVE ExtractElements(_)
ExtractElements(data) ==
    IF data = <<>> THEN <<>>
    ELSE LET row == Head(data)
         IN  IF row.conf = -1 \/ Strip(row.text) = <<>>
             THEN ExtractElements(Tail(data))
             ELSE << [text |-> row.text,
                      x |-> row.left + (row.width \div 2),
                      y |-> row.top + (row.height \div 2)] >>
                  \o ExtractElements(Tail(data))

\* {k: v['value'] for k, v in fields.items()}
FieldValues(flds) == [f \in DOMAIN flds |-> flds[f].value]

\* extract_text_with_position(image_path) on the file system f: [value, calls].
\* Every exception is caught and None is returned.
extract_text_with_position(f, path, k) ==
    IF ~Exists(f, path) THEN [value |-> None, calls |-> k]
    ELSE IF ~Decodable(f[path]) THEN [value |-> None, calls |-> k]
    ELSE IF ~Recognizable(f[path]) THEN [value |-> None, calls |-> Count(k, "ocr")]
    ELSE [value |-> PyDict(FieldValues(identify_fields(
                        ExtractElements(image_to_data(f[path]))))),
          calls |-> Count(k, "ocr")]

(***************************************************************************)
(* OCRManager                                                              *)
(***************************************************************************)
supported_languages == {"por", "eng", "spa"}

\* Mutant of ValidLanguage: the language is not validated.
ValidLanguage_unchecked(language) == TRUE

\* language in self.supported_languages
ValidLanguage(language) == language \in supported_languages

ImageExts == {".png", ".jpg", ".jpeg"}

\* dict.get(key, default)
DictGet(d, key, default) == IF key \in DOMAIN d THEN d[key] ELSE default

\* a.update(b)
DictUpdate(a, b) ==
    [j \in (DOMAIN a) \cup (DOMAIN b) |-> IF j \in DOMAIN b THEN b[j] ELSE a[j]]

\* process_document_with_position's loop over pages:
\* all_fields.update(page.get('fields', {}))
RECURSIVE CombinePages(_, _)
CombinePages(pages, all_fields) ==
    IF pages = <<>> THEN all_fields
    ELSE CombinePages(Tail(pages),
                      DictUpdate(all_fields, DictGet(Head(pages), "fields", EmptyDict)))

\* What process_document_with_position returns for a PDF once
\* _process_pdf_with_position returned pages (a list, or None): a false `pages`
\* falls through to the end of the method, which returns None.
WithPositionPdfResult(pages) ==
    IF Truthy(pages)
    THEN Return(PyDict(CombinePages(pages.v, EmptyDict)))
    ELSE Return(None)

(***************************************************************************)
(* The request threads.                                                    *)
(***************************************************************************)
Procs == {1, 2}

Languages == {"por", "eng", "spa", "fra"}

\* The PDFs: one to MaxPages pages.
Docs == UNION { [1..n -> Contents] : n \in 1..MaxPages }

NoReq == [op |-> "none", ext |-> "", lang |-> "", doc |-> <<>>]
NoResult == [kind |-> "none"]
NoCall == [hit |-> FALSE, returned |-> None, uncached |-> None]

\* The calls of the OCRManager methods: on a PDF, on the image at UploadPath,
\* on a file of another type.
ManagerRequests ==
    { [op |-> o, ext |-> ".pdf", lang |-> l, doc |-> d] :
        o \in {"process_document", "process_document_with_position"},
        l \in Languages, d \in Docs }
    \cup
    { [op |-> o, ext |-> e, lang |-> l, doc |-> <<>>] :
        o \in {"process_document", "process_document_with_position"},
        l \in Languages, e \in {".png", ".txt"} }

\* The calls of extract_text_from_pdf(pdf_path); lang is its default.
LegacyRequests ==
    { [op |-> "extract_text_from_pdf", ext |-> ".pdf", lang |-> "por", doc |-> d] :
        d \in Docs }

DIdle ==
    /\ cache = <<>>
    /\ lastCall = NoCall
    /\ pc = [p \in Procs |-> "idle"]
    /\ req = [p \in Procs |-> NoReq]
    /\ page_num = [p \in Procs |-> 0]
    /\ acc = [p \in Procs |-> <<>>]
    /\ result = [p \in Procs |-> NoResult]
    /\ calls = [p \in Procs |-> NoCalls]

\* What entering the call r does, up to its return or to the start of the page
\* loop of a PDF: [pc, result, calls, cache, lastCall].
Enter(r, f, c, lc) ==
    LET ended(res, k) ==
            [pc |-> "done", result |-> res, calls |-> k, cache |-> c, lastCall |-> lc]
        loop == [pc |-> "render", result |-> NoResult, calls |-> NoCalls,
                 cache |-> c, lastCall |-> lc]
    IN  IF r.op = "extract_text_from_pdf" THEN loop
        ELSE IF ~ValidLanguage(r.lang)
             THEN ended(Raise("ValueError", "language"), NoCalls)
        ELSE IF r.ext = ".pdf"
             THEN IF r.op = "process_document"
                  THEN LET x == extract_text_from_pdf_by_image(r.doc, NoCalls)
                       IN  ended(Return(x.value), x.calls)
                  ELSE loop
        ELSE IF r.ext \in ImageExts
             THEN IF r.op = "process_document"
                  THEN LET x == extract_text_from_image(f, c, UploadPath, r.lang, NoCalls)
                       IN  [pc |-> "done", result |-> Return(x.value),
                            calls |-> x.calls, cache |-> x.cache,
                            lastCall |-> [hit |-> x.hit, returned |-> x.value,
                                          uncached |-> x.uncached]]
                  ELSE LET x == extract_text_with_position(f, UploadPath, NoCalls)
                       IN  ended(Return(x.value), x.calls)
        ELSE ended(Raise("ValueError", "format"), NoCalls)

\* A thread takes the call r.
Start(p, r) ==
    /\ pc[p] = "idle"
    /\ \E e \in {Enter(r, fs, cache, lastCall)} :
          /\ pc' = [pc EXCEPT ![p] = e.pc]
          /\ result' = [result EXCEPT ![p] = e.result]
          /\ calls' = [calls EXCEPT ![p] = e.calls]
          /\ cache' = e.cache
          /\ lastCall' = e.lastCall
    /\ req' = [req EXCEPT ![p] = r]
    /\ page_num' = [page_num EXCEPT ![p] = 0]
    /\ acc' = [acc EXCEPT ![p] = <<>>]
    /\ UNCHANGED <<fs, fvars>>

\* What the PDF functions return at the end of the page loop.
LoopResult(r, a) ==
    IF r.op = "extract_text_from_pdf"
    THEN Return(PyStr(a))
    ELSE WithPositionPdfResult(PyList(a))

\* What they return when an exception leaves the page loop: the function's
\* except clause returns None.
LoopFailure(r) ==
    IF r.op = "extract_text_from_pdf"
    THEN Return(None)
    ELSE WithPositionPdfResult(None)

\* page.get_pixmap(); Image.frombytes(...); img.save(temp_path)
Render(p) ==
    /\ pc[p] = "render"
    /\ calls' = [calls EXCEPT ![p] =
                    IF Decodable(req[p].doc[page_num[p] + 1])
                    THEN Count(Count(calls[p], "raster"), "saved")
                    ELSE Count(calls[p], "raster")]
    /\ IF Decodable(req[p].doc[page_num[p] + 1])
       THEN /\ fs' = SaveFile(fs, TempPath(page_num[p]), req[p].doc[page_num[p] + 1])
            /\ pc' = [pc EXCEPT ![p] = "ocr"]
            /\ UNCHANGED result
       ELSE /\ pc' = [pc EXCEPT ![p] = "done"]
            /\ result' = [result EXCEPT ![p] = LoopFailure(req[p])]
            /\ UNCHANGED fs
    /\ UNCHANGED <<cache, lastCall, req, page_num, acc, fvars>>

\* The OCR of the temporary file: extract_text_with_position(temp_path) in
\* _process_pdf_with_position, the cached extract_text_from_image(temp_img_path)
\* in extract_text_from_pdf.
Ocr(p) ==
    /\ pc[p] = "ocr"
    /\ IF req[p].op = "extract_text_from_pdf"
       THEN \E x \in {extract_text_from_image(fs, cache, TempPath(page_num[p]),
                                              NoKw, calls[p])} :
              /\ acc' = [acc EXCEPT ![p] =
                            IF Truthy(x.value) THEN acc[p] \o x.value.v ELSE acc[p]]
              /\ calls' = [calls EXCEPT ![p] = x.calls]
              /\ cache' = x.cache
              /\ lastCall' = [hit |-> x.hit, returned |-> x.value,
                              uncached |-> x.uncached]
              /\ pc' = [pc EXCEPT ![p] = "remove"]
       ELSE \E x \in {extract_text_with_position(fs, TempPath(page_num[p]), calls[p])} :
              /\ acc' = [acc EXCEPT ![p] =
                            IF Truthy(x.value)
                            THEN Append(acc[p], [page |-> page_num[p] + 1,
                                                 elements |-> x.value.v])
                            ELSE acc[p]]
              /\ calls' = [calls EXCEPT ![p] = x.calls]
              /\ pc' = [pc EXCEPT ![p] = "exists"]
              /\ UNCHANGED <<cache, lastCall>>
    /\ UNCHANGED <<fs, req, page_num, result, fvars>>

\* The end of one page's block: the next page, or the return.
NextPage(p) ==
    IF page_num[p] + 1 < Len(req[p].doc)
    THEN /\ page_num' = [page_num EXCEPT ![p] = page_num[p] + 1]
         /\ pc' = [pc EXCEPT ![p] = "render"]
         /\ UNCHANGED result
    ELSE /\ pc' = [pc EXCEPT ![p] = "done"]
         /\ result' = [result EXCEPT ![p] = LoopResult(req[p], acc[p])]
         /\ UNCHANGED page_num

\* finally: if os.path.exists(temp_path)
ExistsCheck(p) ==
    /\ pc[p] = "exists"
    /\ IF Exists(fs, TempPath(page_num[p]))
       THEN /\ pc' = [pc EXCEPT ![p] = "remove"]
            /\ UNCHANGED <<page_num, result>>
       ELSE NextPage(p)
    /\ UNCHANGED <<fs, cache, lastCall, req, acc, calls, fvars>>

\* os.remove(temp_path): FileNotFoundError when the file is not there.
Remove(p) ==
    /\ pc[p] = "remove"
    /\ IF Exists(fs, TempPath(page_num[p]))
       THEN /\ fs' = RemoveFile(fs, TempPath(page_num[p]))
            /\ calls' = [calls EXCEPT ![p] = Count(calls[p], "removed")]
            /\ NextPage(p)
       ELSE /\ pc' = [pc EXCEPT ![p] = "done"]
            /\ result' = [result EXCEPT ![p] = LoopFailure(req[p])]
            /\ UNCHANGED <<fs, calls, page_num>>
    /\ UNCHANGED <<cache, lastCall, req, acc, fvars>>

\* The call has returned to its caller; the thread is free for the next one.
Finish(p) ==
    /\ pc[p] = "done"
    /\ pc' = [pc EXCEPT ![p] = "idle"]
    /\ req' = [req EXCEPT ![p] = NoReq]
    /\ page_num' = [page_num EXCEPT ![p] = 0]
    /\ acc' = [acc EXCEPT ![p] = <<>>]
    /\ result' = [result EXCEPT ![p] = NoResult]
    /\ calls' = [calls EXCEPT ![p] = NoCalls]
    /\ UNCHANGED <<fs, cache, lastCall, fvars>>

(***************************************************************************)
(* Spec: one call of an OCRManager method or of extract_text_from_pdf, on  *)
(* a fresh process (empty cache), whatever the file at UploadPath.         *)
(***************************************************************************)
FIdle ==
    /\ elements = <<>>
    /\ fields = EmptyDict
    /\ ffvLog = <<>>
    /\ sorted_elements = <<>>
    /\ fpc = "input"

Init ==
    /\ FIdle
    /\ DIdle
    /\ \E c \in Contents \cup {Absent} :
          fs = [path \in Paths |-> IF path = UploadPath THEN c ELSE Absent]

Next ==
    \/ \E r \in ManagerRequests \cup LegacyRequests : Start(1, r)
    \/ Render(1)
    \/ Ocr(1)
    \/ ExistsCheck(1)
    \/ Remove(1)

Spec == Init /\ [][Next]_vars

(***************************************************************************)
(* SpecCache: one thread serving, one after the other, the calls that go   *)
(* through the cached extract_text_from_image (process_document on the     *)
(* image at UploadPath, extract_text_from_pdf), while the file at          *)
(* UploadPath is replaced between calls (routes.py saves each upload under *)
(* its own file name and removes it after the call).                       *)
(***************************************************************************)
CacheContents == {"Cpf12", "Cpf34"}

CacheDocs == UNION { [1..n -> CacheContents] : n \in 1..MaxPages }

CacheRequests ==
    { [op |-> "process_document", ext |-> ".png", lang |-> "por", doc |-> <<>>] }
    \cup
    { [op |-> "extract_text_from_pdf", ext |-> ".pdf", lang |-> "por", doc |-> d] :
        d \in CacheDocs }

\* file.save(filepath) / os.remove(filepath) in ocr_route, between two calls.
WriteUpload ==
    /\ pc[1] = "idle"
    /\ \E c \in CacheContents \cup {Absent} :
          /\ c # fs[UploadPath]
          /\ fs' = [fs EXCEPT ![UploadPath] = c]
    /\ UNCHANGED <<cache, lastCall, pc, req, page_num, acc, result, calls, fvars>>

CInit ==
    /\ FIdle
    /\ DIdle
    /\ fs = [path \in Paths |-> Absent]

CNext ==
    \/ WriteUpload
    \/ \E r \in CacheRequests : Start(1, r)
    \/ Render(1)
    \/ Ocr(1)
    \/ Remove(1)
    \/ Finish(1)

SpecCache == CInit /\ [][CNext]_vars

(***************************************************************************)
(* SpecConc: two threads of one process, each serving one PDF call that    *)
(* goes through temporary files, on different documents.                   *)
(***************************************************************************)
ConcContents == {"Cpf12", "Hello"}

ConcDocs == UNION { [1..n -> ConcContents] : n \in 1..MaxPages }

ConcRequests ==
    { [op |-> o, ext |-> ".pdf", lang |-> "por", doc |-> d] :
        o \in {"process_document_with_position", "extract_text_from_pdf"},
        d \in ConcDocs }

PInit ==
    /\ FIdle
    /\ DIdle
    /\ fs = [path \in Paths |-> Absent]

PNext ==
    \E p \in Procs :
        \/ \E r \in ConcRequests : req[3 - p].doc # r.doc /\ Start(p, r)
        \/ Render(p)
        \/ Ocr(p)
        \/ ExistsCheck(p)
        \/ Remove(p)

SpecConc == PInit /\ [][PNext]_vars

(***************************************************************************)
(* The field identifier on bounded inputs.                                 *)
(***************************************************************************)
TxtCPF      == <<"C","P","F">>
TxtCpfColon == <<" ","c","p","f",":">>
TxtValidade == <<"V","a","l","i","d","a","d","e">>
Txt12       == <<"1","2">>

Texts == {TxtCPF, TxtCpfColon, TxtValidade, Txt12}

\* Centres (x, y) of the word boxes: same row (dy < 20), below (dy < 100,
\* dx < 100) and the two boundaries (dy = 100, dx = 100) all occur.
Positions ==
    { <<10, 50>>, <<10, 60>>, <<60, 60>>, <<10, 150>>, <<110, 140>> }

WordElements == { [text |-> t, x |-> p[1], y |-> p[2]] : t \in Texts, p \in Positions }

FInit ==
    /\ FIdle
    /\ DIdle
    /\ fs = [path \in Paths |-> Absent]

\* The OCR adapter hands over one more word (extract_text_with_position's loop).
AddElement ==
    /\ fpc = "input"
    /\ Len(elements) < MaxElems
    /\ \E e \in WordElements : elements' = Append(elements, e)
    /\ UNCHANGED <<fields, ffvLog, sorted_elements, fpc, dvars>>

\* fields = identify_fields(elements)
IdentifyFields ==
    /\ fpc = "input"
    /\ \E r \in {identify_fields_run(elements)} :
           /\ fields' = r.fields
           /\ ffvLog' = r.log
           /\ sorted_elements' = r.sorted
    /\ fpc' = "done"
    /\ UNCHANGED <<elements, dvars>>

FNext == AddElement \/ IdentifyFields

SpecFields == FInit /\ [][FNext]_vars

(***************************************************************************)
(* Claims about the field identifier (checked under SpecFields).           *)
(***************************************************************************)
\* The positions in ffvLog of the calls made for field f that returned a value.
ResolvedCalls(f) ==
    { n \in 1..Len(ffvLog) : ffvLog[n].field = f /\ ffvLog[n].value # 0 }

\* The entry identify_fields holds for a field when the call ffvLog[n] decides it.
EntryOfCall(n) ==
    LET c == ffvLog[n]
        s == sorted_elements
    IN  [label |-> s[c.index].text,
         value |-> s[c.value].text,
         position |-> [x |-> s[c.value].x, y |-> s[c.value].y]]

Least(S) == CHOOSE n \in S : \A m \in S : n <= m
Greatest(S) == CHOOSE n \in S : \A m \in S : n >= m

Reorderings(seq) ==
    { [i \in 1..Len(seq) |-> seq[p[i]]] : p \in Permutations(1..Len(seq)) }

DistinctY(seq) ==
    \A i, j \in 1..Len(seq) : i # j => seq[i].y # seq[j].y

\* C6 as stated: identify_fields gives the same field matches on every
\* reordering of its input, elements sharing a vertical centre included.
C6_AnyOrder ==
    fpc = "done" =>
        \A q \in Reorderings(elements) : identify_fields(q) = fields

\* C6 amended: identify_fields gives the same field matches on every
\* reordering of an input whose elements have pairwise distinct vertical
\* centres.
C6_DistinctYOrder ==
    (fpc = "done" /\ DistinctY(elements)) =>
        \A q \in Reorderings(elements) : identify_fields(q) = fields

\* A three-word input with distinct vertical centres, given out of reading
\* order, on which a field was resolved.
C6_Witness ==
    /\ fpc = "done"
    /\ Len(elements) = 3
    /\ DistinctY(elements)
    /\ elements # sorted_elements
    /\ fields # EmptyDict

\* The indexes from the label's position forward that satisfy each rule.
SameRowCandidates(c) ==
    { j \in c.index..Len(sorted_elements) :
        SameRowRule(sorted_elements[j], sorted_elements[c.index].x, sorted_elements[c.index].y) }

BelowCandidates(c) ==
    { j \in c.index..Len(sorted_elements) :
        BelowRule(sorted_elements[j], sorted_elements[c.index].x, sorted_elements[c.index].y) }

\* C10: when, from the label's position forward, some element satisfies the
\* same-row rule and some element satisfies the below rule, find_field_value
\* returns the first element satisfying the same-row rule.
C10_SameRowFirst ==
    \A n \in 1..Len(ffvLog) :
        LET c == ffvLog[n]
        IN  (SameRowCandidates(c) # {} /\ BelowCandidates(c) # {}) =>
                c.value = Least(SameRowCandidates(c))

\* A call where a below candidate precedes the first same-row candidate in
\* sorted order, and the same-row candidate was returned.
C10_Witness ==
    \E n \in 1..Len(ffvLog) :
        LET c == ffvLog[n]
        IN  /\ SameRowCandidates(c) # {}
            /\ BelowCandidates(c) # {}
            /\ Least(BelowCandidates(c)) < Least(SameRowCandidates(c))
            /\ c.value = Least(SameRowCandidates(c))

\* The fields dict after the loop of identify_fields has handled the first n
\* elements of the sorted list.
RECURSIVE FieldsAfter(_)
FieldsAfter(n) ==
    IF n = 0 THEN EmptyDict
    ELSE IdentifyStep(sorted_elements, n,
                      [fields |-> FieldsAfter(n - 1), log |-> <<>>]).fields

\* The calls of find_field_value made for field f.
CallsFor(f) == { n \in 1..Len(ffvLog) : ffvLog[n].field = f }

\* C11: find_field_value returns none exactly when no element from the label's
\* position forward satisfies the same-row rule or the below rule; the label
\* whose search returned none adds no entry to the result (the dict is the same
\* before and after its iteration, and a field none of whose labels found a
\* value is absent from the result), and identify_fields still returns its dict.
C11_NoneWhenNoCandidate ==
    /\ \A n \in 1..Len(ffvLog) :
          LET c == ffvLog[n]
          IN  /\ (c.value = 0) <=>
                    (SameRowCandidates(c) = {} /\ BelowCandidates(c) = {})
              /\ (c.value = 0) => FieldsAfter(c.index) = FieldsAfter(c.index - 1)
    /\ fpc = "done" =>
          /\ fields = FieldsAfter(Len(sorted_elements))
          /\ \A k \in 1..Len(field_names) :
                (\A n \in CallsFor(field_names[k]) : ffvLog[n].value = 0)
                    => field_names[k] \notin DOMAIN fields

\* A label followed in sorted order by other elements, none of which satisfies
\* a rule (one of them exactly max_distance away), whose field has no entry.
C11_Witness ==
    /\ fpc = "done"
    /\ \E n \in 1..Len(ffvLog) :
          LET c == ffvLog[n]
              s == sorted_elements
          IN  /\ c.value = 0
              /\ c.index < Len(s)
              /\ \E j \in (c.index + 1)..Len(s) :
                    \/ s[j].y - s[c.index].y = max_distance
                    \/ Abs(s[j].x - s[c.index].x) = max_distance
              /\ c.field \notin DOMAIN fields

\* The text a label element is matched on.
LabelText(i) == Strip(Lower(sorted_elements[i].text))

\* The place of a field in the registry.
RegistryIndex(f) == CHOOSE k \in 1..Len(field_names) : field_names[k] = f

\* Every pattern of field g contains a pattern of field f, so that every text
\* matching g matches f.
Shadows(f, g) ==
    \A j \in 1..Len(field_patterns(g)) :
        \E i \in 1..Len(field_patterns(f)) :
            Contains(field_patterns(f)[i], field_patterns(g)[j])

\* C12: each label element is attributed to at most one field, the first field
\* in registry order having a pattern that is a substring of its text, and no
\* other field is tried for it even when no value was found; 'validade' comes
\* before 'validade_cartao' and shadows it, so 'validade_cartao' is never
\* searched for and never a key of the result.
C12_FirstFieldOnly ==
    /\ RegistryIndex("validade") < RegistryIndex("validade_cartao")
    /\ Shadows("validade", "validade_cartao")
    /\ \A n, m \in 1..Len(ffvLog) : ffvLog[n].index = ffvLog[m].index => n = m
    /\ \A n \in 1..Len(ffvLog) :
          LET c == ffvLog[n]
          IN  /\ MatchesField(c.field, LabelText(c.index))
              /\ \A k \in 1..(RegistryIndex(c.field) - 1) :
                    ~MatchesField(field_names[k], LabelText(c.index))
              /\ c.field # "validade_cartao"
    /\ fpc = "done" =>
          /\ \A i \in 1..Len(sorted_elements) :
                (\E k \in 1..Len(field_names) : MatchesField(field_names[k], LabelText(i)))
                    <=> (\E n \in 1..Len(ffvLog) : ffvLog[n].index = i)
          /\ "validade_cartao" \notin DOMAIN fields

\* A label whose text matches a pattern of 'validade_cartao' found a value, and
\* another such label found none: both went to 'validade'.
C12_Witness ==
    /\ fpc = "done"
    /\ "validade" \in DOMAIN fields
    /\ \E n, m \in 1..Len(ffvLog) :
          /\ MatchesField("validade_cartao", LabelText(ffvLog[n].index))
          /\ MatchesField("validade_cartao", LabelText(ffvLog[m].index))
          /\ ffvLog[n].field = "validade"
          /\ ffvLog[m].field = "validade"
          /\ ffvLog[n].value # 0
          /\ ffvLog[m].value = 0

\* C13: the element find_field_value returns for a label is never the label
\* itself and always comes after it in the vertically sorted list, so its
\* vertical centre is not above the label's; an element that precedes the label
\* in the sorted list is never returned, whichever rule it satisfies.
C13_ValueAfterLabel ==
    \A n \in 1..Len(ffvLog) :
        LET c == ffvLog[n]
            s == sorted_elements
        IN  c.value # 0 =>
                /\ c.value # c.index
                /\ c.value \in (c.index + 1)..Len(s)
                /\ s[c.value].y >= s[c.index].y
                /\ \A j \in 1..(c.index - 1) : c.value # j

\* One label found its value later in the sorted list; another label, preceded
\* in the sorted list by an element on its row and to its right, found none.
C13_Witness ==
    \E n, m \in 1..Len(ffvLog) :
        LET c == ffvLog[n]
            d == ffvLog[m]
            s == sorted_elements
        IN  /\ \E j \in 1..(c.index - 1) : SameRowRule(s[j], s[c.index].x, s[c.index].y)
            /\ c.value = 0
            /\ d.value > d.index

(***************************************************************************)
(* Claims about the document processor (checked under Spec).               *)
(***************************************************************************)
\* A page or image on which the plain-text pipeline (rasterize or open,
\* preprocess, OCR) fails.
PipelineFails(c) == ~Decodable(c) \/ ~Preprocessable(c) \/ ~Recognizable(c)

\* The stripped texts of the pages of doc, from page n on, that went through
\* the plain-text pipeline and gave text.
RECURSIVE SucceededTexts(_, _)
SucceededTexts(doc, n) ==
    IF n > Len(doc) THEN <<>>
    ELSE IF ~PipelineFails(doc[n]) /\ image_to_string(doc[n]) # <<>>
         THEN <<Strip(image_to_string(doc[n]))>> \o SucceededTexts(doc, n + 1)
         ELSE SucceededTexts(doc, n + 1)

\* process_document has returned or raised on a PDF in a supported language.
TextPdfDone(p) ==
    /\ pc[p] = "done"
    /\ req[p].op = "process_document"
    /\ req[p].ext = ".pdf"
    /\ req[p].lang \in supported_languages

\* C1: in plain-text mode, when one page of a PDF fails and another page gives
\* text, no document-level failure is reported and the result is the text of
\* the pages that succeeded, joined by newlines.
C1_PartialResult ==
    \A p \in Procs :
        ( /\ TextPdfDone(p)
          /\ \E n \in 1..Len(req[p].doc) : PipelineFails(req[p].doc[n])
          /\ SucceededTexts(req[p].doc, 1) # <<>> )
        => result[p] = Return(PyStr(JoinLines(SucceededTexts(req[p].doc, 1))))

\* C2: a call of process_document or process_document_with_position with an
\* unsupported language has raised the language error as soon as it is taken,
\* with no call of the rasterizer, the preprocessor or the OCR engine and no
\* temporary file created.
C2_ValidationFirst ==
    \A p \in Procs :
        ( /\ pc[p] # "idle"
          /\ req[p].op \in {"process_document", "process_document_with_position"}
          /\ req[p].lang \notin {"por", "eng", "spa"} )
        => /\ pc[p] = "done"
           /\ result[p] = Raise("ValueError", "language")
           /\ calls[p] = NoCalls
           /\ \A path \in TempPaths : fs[path] = Absent

\* A PDF was submitted in an unsupported language and the call has ended.
C2_Witness ==
    \E p \in Procs :
        /\ pc[p] = "done"
        /\ req[p].op = "process_document_with_position"
        /\ req[p].ext = ".pdf"
        /\ req[p].lang = "fra"
        /\ Len(req[p].doc) = 2
        /\ result[p].kind = "raise"

\* C3: when the pipeline of a single image fails (file missing or undecodable,
\* preprocessing error, OCR engine error), process_document ends with an
\* error, never with a normal return value.
C3_ImageFailureRaises ==
    \A p \in Procs :
        ( /\ pc[p] = "done"
          /\ req[p].op = "process_document"
          /\ req[p].ext \in ImageExts
          /\ req[p].lang \in supported_languages
          /\ (fs[UploadPath] = Absent \/ PipelineFails(fs[UploadPath])) )
        => result[p].kind = "raise"

\* The fieldName -> value mapping of one page.
PageFields(c) == FieldValues(identify_fields(ExtractElements(image_to_data(c))))

\* The mappings of the pages of doc from page n on, merged in page order onto
\* merged, a later page overwriting an earlier one.
RECURSIVE MergedFields(_, _, _)
MergedFields(doc, n, merged) ==
    IF n > Len(doc) THEN merged
    ELSE MergedFields(doc, n + 1, DictUpdate(merged, PageFields(doc[n])))

\* C4: in field mode on a PDF whose pages are all read, the result is the merge
\* of the per-page mappings in page order, later pages overwriting earlier ones.
C4_MergedFields ==
    \A p \in Procs :
        ( /\ pc[p] = "done"
          /\ req[p].op = "process_document_with_position"
          /\ req[p].ext = ".pdf"
          /\ req[p].lang \in supported_languages
          /\ \A n \in 1..Len(req[p].doc) :
                Decodable(req[p].doc[n]) /\ Recognizable(req[p].doc[n])
          /\ \E n \in 1..Len(req[p].doc) : DOMAIN PageFields(req[p].doc[n]) # {} )
        => result[p] = Return(PyDict(MergedFields(req[p].doc, 1, EmptyDict)))

\* C8: in the PDF functions that go through temporary files, every temporary
\* file saved for a page is removed, once, before the next page starts, whether
\* that page's OCR succeeded or not; when the function has returned none is
\* left.
C8_TempFilesRemoved ==
    \A p \in Procs :
        /\ pc[p] = "render" =>
              /\ \A path \in TempPaths : fs[path] = Absent
              /\ calls[p].saved = page_num[p]
              /\ calls[p].removed = page_num[p]
        /\ pc[p] \in {"ocr", "exists", "remove"} =>
              /\ calls[p].saved = page_num[p] + 1
              /\ calls[p].removed = page_num[p]
        /\ pc[p] = "done" =>
              /\ \A path \in TempPaths : fs[path] = Absent
              /\ calls[p].saved = calls[p].removed

\* A two-page PDF went through the temporary files, the OCR of its first page
\* failed, and the call has returned.
C8_Witness ==
    \E p \in Procs :
        /\ pc[p] = "done"
        /\ req[p].op \in {"process_document_with_position", "extract_text_from_pdf"}
        /\ Len(req[p].doc) = 2
        /\ req[p].doc[1] = "OcrErr"
        /\ calls[p].saved = 2
        /\ calls[p].removed = 2

(***************************************************************************)
(* Claims about the cache (SpecCache) and about parallel calls (SpecConc). *)
(***************************************************************************)
\* C7: every call of the cached extract_text_from_image returns what the
\* function would return, at that moment, with the cache disabled or cleared.
C7_CacheTransparent ==
    lastCall.returned = lastCall.uncached

\* A file system holding the temporary file of page n (0-based) alone.
OnlyTemp(n, c) == [path \in Paths |-> IF path = TempPath(n) THEN c ELSE Absent]

\* What a PDF call through temporary files returns when it runs alone, on a
\* cleared cache: its page loop from page n (1-based) on, a the results so far.
RECURSIVE AloneLoop(_, _, _)
AloneLoop(r, n, a) ==
    IF n > Len(r.doc) THEN LoopResult(r, a)
    ELSE IF ~Decodable(r.doc[n]) THEN LoopFailure(r)
    ELSE IF r.op = "extract_text_from_pdf"
         THEN LET x == extract_text_from_image_body(
                          OnlyTemp(n - 1, r.doc[n]), TempPath(n - 1), NoCalls).value
              IN  AloneLoop(r, n + 1, IF Truthy(x) THEN a \o x.v ELSE a)
         ELSE LET x == extract_text_with_position(
                          OnlyTemp(n - 1, r.doc[n]), TempPath(n - 1), NoCalls).value
              IN  AloneLoop(r, n + 1,
                            IF Truthy(x)
                            THEN Append(a, [page |-> n, elements |-> x.v])
                            ELSE a)

AloneResult(r) == AloneLoop(r, 1, <<>>)

\* C9: whatever the interleaving of two PDF calls running in parallel on
\* different documents, each returns what it returns when run alone.
C9_Independent ==
    \A p \in Procs :
        ( /\ pc[p] = "done"
          /\ req[p].op \in {"process_document_with_position", "extract_text_from_pdf"}
          /\ req[p].ext = ".pdf"
          /\ req[p].lang \in supported_languages )
        => result[p] = AloneResult(req[p])

====
